---------------------------- MODULE Spec2Model ----------------------------
(***************************************************************************)
(* A model of main.py of Multi-MP3: the link extractor (clean_url,         *)
(* read_links), the three reconcilers (cleanupscdlmetadata,                 *)
(* cleanup_ytdlp_metadata, check_missing_tracks_with_metadata_spotify) and  *)
(* the orchestrator (main and the three phase functions).                   *)
(*                                                                          *)
(* Text is modelled as sequences of tokens.  A token stands for a piece of  *)
(* text that the regular expressions of clean_url treat as a unit.          *)
(***************************************************************************)
EXTENDS Integers, Sequences, FiniteSets, TLC

VARIABLES
    input,      \* the input file: a sequence of raw lines
    url,        \* Extractor: what clean_url returned for the first line
    links,      \* Extractor: what read_links returned for the input file
    xpc,        \* Extractor: which of the two functions have been applied
    fs,         \* the output directory: playlist directories and .metadata
    fsBefore,   \* the output directory as the last Reconciler pass found it
    passes,     \* the Reconciler passes made so far, with what each returned
    env,        \* whether the credentials are set and the input file's state
    pc,         \* Orchestrator: where main or the running phase function is
    phase,      \* Orchestrator: the phase function that is running
    loop,       \* Orchestrator: links, i, name and exit_code of that function
    results,    \* Orchestrator: how each phase function ended
    calls,      \* Orchestrator: the fetches, downloads and passes made so far
    exit        \* the process exit status, once the process has ended

extractVars == <<input, url, links, xpc>>
reconcileVars == <<fs, fsBefore, passes>>
mainVars == <<env, pc, phase, loop, results, calls, exit>>
vars == <<input, url, links, xpc, fs, fsBefore, passes,
          env, pc, phase, loop, results, calls, exit>>

-----------------------------------------------------------------------------
(* Bounds *)

MaxLineLen == 4
MaxCount == 3       \* largest playlist_count a sidecar file states
MaxTracks == 3      \* longest track listing of a metadata document
MaxInfos == 2       \* sidecar files the downloaders leave in the directory
MaxFiles == 3       \* files of any kind the downloaders and fetcher leave
MaxFileLines == 3   \* lines of the input file of a whole run
MaxExitCode == 2    \* largest exit code of a downloader process

-----------------------------------------------------------------------------
(* Text of an input line *)

\* URL heads: scheme, optional host prefix, domain and the slash after it.
YT == "https://www.youtube.com/"
YB == "https://youtu.be/"
SC == "https://soundcloud.com/"
SPOTIFY_PREFIX == "https://open.spotify.com/"
SPH == "http://spotify.com/"

\* "x" is any character that is neither white space nor a bracket nor part
\* of a scheme or domain; the last three tokens are domains with no scheme.
Tokens ==
    {"#", " ", "(", ")", "x", YT, YB, SC, SPOTIFY_PREFIX, SPH,
     "youtube.com", "soundcloud.com", "spotify.com"}

Lines == UNION {[1..n -> Tokens] : n \in 0..MaxLineLen}

\* The domain substrings a token's text contains.
Domains(t) ==
    CASE t \in {YT, "youtube.com"} -> {"youtube.com"}
      [] t = YB -> {"youtu.be"}
      [] t \in {SC, "soundcloud.com"} -> {"soundcloud.com"}
      [] t \in {SPOTIFY_PREFIX, SPH, "spotify.com"} -> {"spotify.com"}
      [] OTHER -> {}

\* Python's  dom in s
Contains(s, dom) == \E i \in 1..Len(s) : dom \in Domains(s[i])

\* Python's  str.strip()
RECURSIVE LStrip(_)
LStrip(s) == IF s # <<>> /\ Head(s) = " " THEN LStrip(Tail(s)) ELSE s

RECURSIVE RStrip(_)
RStrip(s) ==
    IF s # <<>> /\ s[Len(s)] = " " THEN RStrip(SubSeq(s, 1, Len(s) - 1)) ELSE s

Strip(s) == RStrip(LStrip(s))

-----------------------------------------------------------------------------
(* clean_url *)

\* The character class [^\s\)\]] of the URL patterns.
RunChar(t) == t \notin {" ", ")", "]"}

\* The greedy [^\s\)\]]+ starting at position i: the last position of the run.
RECURSIVE RunEnd(_, _)
RunEnd(s, i) == IF i < Len(s) /\ RunChar(s[i + 1]) THEN RunEnd(s, i + 1) ELSE i

\* Where the pattern  head [^\s\)\]]+  matches at position i.
UrlAt(s, heads, i) == s[i] \in heads /\ i < Len(s) /\ RunChar(s[i + 1])

\* Where the pattern  \( head [^\s\)\]]+ \)  matches at position i.
MdAt(s, heads, i) ==
    /\ s[i] = "("
    /\ i < Len(s)
    /\ UrlAt(s, heads, i + 1)
    /\ RunEnd(s, i + 2) < Len(s)
    /\ s[RunEnd(s, i + 2) + 1] = ")"

Leftmost(S) == CHOOSE i \in S : \A j \in S : i <= j

\* re.search of the plain pattern: group(0) of the leftmost match, or <<>>.
SearchUrl(s, heads) ==
    LET at == {i \in 1..Len(s) : UrlAt(s, heads, i)}
    IN  IF at = {} THEN <<>>
        ELSE SubSeq(s, Leftmost(at), RunEnd(s, Leftmost(at) + 1))

\* re.search of the markdown pattern: group(1) of the leftmost match, or <<>>.
SearchMd(s, heads) ==
    LET at == {i \in 1..Len(s) : MdAt(s, heads, i)}
    IN  IF at = {} THEN <<>>
        ELSE SubSeq(s, Leftmost(at) + 1, RunEnd(s, Leftmost(at) + 2))

YouTubeHeads == {YT, YB}
SoundCloudHeads == {SC}
SpotifyHeads == {SPOTIFY_PREFIX, SPH}

\* MatchUrl with the plain Spotify test written as a substring test.
MatchUrl_SpotifyAnywhere(s) ==
    IF SearchMd(s, YouTubeHeads) # <<>> THEN SearchMd(s, YouTubeHeads)
    ELSE IF SearchUrl(s, YouTubeHeads) # <<>> THEN SearchUrl(s, YouTubeHeads)
    ELSE IF SearchUrl(s, SoundCloudHeads) # <<>>
        THEN SearchUrl(s, SoundCloudHeads)
    ELSE IF SearchMd(s, SpotifyHeads) # <<>> THEN SearchMd(s, SpotifyHeads)
    ELSE IF \E i \in 1..Len(s) : s[i] = SPOTIFY_PREFIX THEN s
    ELSE <<>>

\* The steps of clean_url after the comment and blank checks, in order.
MatchUrl(s) ==
    IF SearchMd(s, YouTubeHeads) # <<>> THEN SearchMd(s, YouTubeHeads)
    ELSE IF SearchUrl(s, YouTubeHeads) # <<>> THEN SearchUrl(s, YouTubeHeads)
    ELSE IF SearchUrl(s, SoundCloudHeads) # <<>>
        THEN SearchUrl(s, SoundCloudHeads)
    ELSE IF SearchMd(s, SpotifyHeads) # <<>> THEN SearchMd(s, SpotifyHeads)
    ELSE IF s[1] = SPOTIFY_PREFIX THEN s
    ELSE <<>>

\* <<>> is the empty string clean_url returns for a rejected line.
clean_url(raw) ==
    IF raw # <<>> /\ raw[1] = "#" THEN <<>>
    ELSE IF Strip(raw) = <<>> THEN <<>>
    ELSE MatchUrl(Strip(raw))

-----------------------------------------------------------------------------
(* read_links *)

NoLinks == [all |-> <<>>, spotify |-> <<>>, soundcloud |-> <<>>, youtube |-> <<>>]

\* The if/elif chain that files an accepted link.
Classify(acc, u) ==
    IF Contains(u, "spotify.com")
        THEN [acc EXCEPT !.all = Append(@, u), !.spotify = Append(@, u)]
    ELSE IF Contains(u, "soundcloud.com")
        THEN [acc EXCEPT !.all = Append(@, u), !.soundcloud = Append(@, u)]
    ELSE IF Contains(u, "youtube.com") \/ Contains(u, "youtu.be")
        THEN [acc EXCEPT !.all = Append(@, u), !.youtube = Append(@, u)]
    ELSE [acc EXCEPT !.all = Append(@, u)]

\* The loop over the raw lines of the file.
RECURSIVE ReadLoop(_, _)
ReadLoop(f, acc) ==
    IF f = <<>> THEN acc
    ELSE ReadLoop(Tail(f),
                  IF clean_url(Head(f)) = <<>> THEN acc
                  ELSE Classify(acc, clean_url(Head(f))))

\* readable = FALSE: opening or decoding the file raises, and the except
\* branch returns the four empty lists.
read_links(readable, f) == IF readable THEN ReadLoop(f, NoLinks) ELSE NoLinks

-----------------------------------------------------------------------------
(* The output directory *)

\* Directories directly under the output directory.  A directory exists when
\* it holds a file: an empty directory and a missing one are skipped alike by
\* all three Reconcilers.
Playlists == {<<"p", "1">>, <<"p", "2">>}

\* What json.load makes of a *.info.json sidecar file: parses = FALSE when it
\* raises.  playlist_count is <<n>>, or <<>> when the document has no such key.
Sidecars ==
    {[parses |-> FALSE, playlist_count |-> <<>>]}
        \cup {[parses |-> TRUE, playlist_count |-> c] :
                c \in {<<>>} \cup {<<n>> : n \in 0..MaxCount}}

\* A file of a playlist directory other than a sidecar: the digits its stem
\* starts with (<<>> when it starts with none) and its suffix, lower-cased.
AudioFile(ds, ext) == [digits |-> ds, ext |-> ext]
AudioFiles ==
    {AudioFile(<<0, 1>>, "mp3"),        \* "01 A.mp3"
     AudioFile(<<0, 0, 2>>, "mp3"),     \* "002 B.mp3"
     AudioFile(<<3>>, "mp3"),           \* "3 C.mp3"
     AudioFile(<<>>, "mp3"),            \* "cover.mp3"
     AudioFile(<<0, 2>>, "flac")}       \* "02 D.flac"

\* One entry of tracks.items of a metadata document.  A playlist entry holds
\* the track under "track"; an album entry is the track itself.
NoTrack == [name |-> <<>>, artists |-> <<>>, spotify |-> 0]
\* The track at position k is named by k letters, with white space around
\* the name at the even positions; "spotify" is its URL, 0 for none.
TrackAt(k) ==
    [name |-> IF k % 2 = 0 THEN <<" ">> \o [i \in 1..k |-> "t"] \o <<" ">>
              ELSE [i \in 1..k |-> "t"],
     artists |-> IF k % 2 = 0 THEN <<"a", "b">> ELSE <<"a">>,
     spotify |-> k]
ItemAt(k) ==
    IF k % 2 = 0 THEN [track |-> <<>>, own |-> TrackAt(k)]
    ELSE [track |-> <<TrackAt(k)>>, own |-> NoTrack]

\* .metadata/<name>.json
NoDoc ==
    [isfile |-> FALSE, parses |-> FALSE, playlist_count |-> <<>>,
     songs |-> <<>>, tracks |-> <<>>]
SidecarDoc(sc) ==
    [isfile |-> TRUE, parses |-> sc.parses, playlist_count |-> sc.playlist_count,
     songs |-> <<>>, tracks |-> <<>>]
SpotifyDoc(n) ==
    [isfile |-> TRUE, parses |-> TRUE, playlist_count |-> <<>>,
     songs |-> <<>>, tracks |-> [k \in 1..n |-> ItemAt(k)]]
BadDoc ==
    [isfile |-> TRUE, parses |-> FALSE, playlist_count |-> <<>>,
     songs |-> <<>>, tracks |-> <<>>]
FetchedDocs == {BadDoc} \cup {SpotifyDoc(n) : n \in 0..MaxTracks}

EmptyDir == [infos |-> <<>>, audio |-> {}]
EmptyFs == [dirs |-> [d \in Playlists |-> EmptyDir], meta |-> [d \in Playlists |-> NoDoc]]

\* The orders in which iterdir() may list the playlist directories.
Orders ==
    {o \in [1..Cardinality(Playlists) -> Playlists] :
        \A i, j \in DOMAIN o : i # j => o[i] # o[j]}

IsDir(f, d) == d \in Playlists /\ (f.dirs[d].infos # <<>> \/ f.dirs[d].audio # {})

-----------------------------------------------------------------------------
(* Numbers and their text *)

Max(S) == CHOOSE x \in S : \A y \in S : y <= x

\* int(numstr)
RECURSIVE IntOf(_)
IntOf(ds) ==
    IF ds = <<>> THEN 0 ELSE 10 * IntOf(SubSeq(ds, 1, Len(ds) - 1)) + ds[Len(ds)]

\* str(n) for n >= 0
RECURSIVE DigitsOf(_)
DigitsOf(n) == IF n < 10 THEN <<n>> ELSE Append(DigitsOf(n \div 10), n % 10)

RECURSIVE Zeros(_)
Zeros(k) == IF k <= 0 THEN <<>> ELSE <<0>> \o Zeros(k - 1)

\* f"{num:0{padding}d}"
ZeroPad(n, padding) == Zeros(padding - Len(DigitsOf(n))) \o DigitsOf(n)

\* The numbers of a range in increasing order that pass a test.
RECURSIVE Ascending(_, _, _)
Ascending(lo, hi, keep) ==
    IF lo > hi THEN <<>>
    ELSE (IF lo \in keep THEN <<lo>> ELSE <<>>) \o Ascending(lo + 1, hi, keep)

RECURSIVE Concat(_)
Concat(ss) == IF ss = <<>> THEN <<>> ELSE Head(ss) \o Concat(Tail(ss))

-----------------------------------------------------------------------------
(* The scan of a playlist directory shared by the three Reconcilers *)

\* The files whose suffix is accepted and whose stem starts with digits.
Numbered(audio, exts) == {a \in audio : a.ext \in exts /\ a.digits # <<>>}

\* numbers
PresentNumbers(audio, exts) == {IntOf(a.digits) : a \in Numbered(audio, exts)}

\* padding = max(padding, len(num_str)), from 0
PaddingOf(audio, exts) == Max({0} \cup {Len(a.digits) : a \in Numbered(audio, exts)})

\* missing_numbers = [n for n in range(1, expected + 1) if n not in numbers]
MissingNumbers(expected, numbers) == Ascending(1, expected, (1..expected) \ numbers)

\* playlist_data.get("playlist_count", len(info_files)) on the first sidecar
ExpectedCount(infos) ==
    IF infos[1].parses /\ infos[1].playlist_count # <<>>
        THEN infos[1].playlist_count[1]
    ELSE Len(infos)

Mp3Only == {"mp3"}
SpotifySuffixes == {"mp3", "flac", "m4a"}

\* Song(...)
Song(name, length, numstr, track) ==
    [playlist |-> name, length |-> length, error |-> <<"Missing">> \o numstr,
     list_position |-> numstr, title |-> Strip(track.name),
     artists |-> track.artists, song_url |-> track.spotify]

\* missing_songs of one playlist directory
MissingSongs(name, infos, audio) ==
    LET expected == ExpectedCount(infos)
        nums == MissingNumbers(expected, PresentNumbers(audio, Mp3Only))
    IN  [i \in 1..Len(nums) |->
            Song(name, expected, ZeroPad(nums[i], PaddingOf(audio, Mp3Only)), NoTrack)]

\* Consumed with the sidecar files left where they are.
Consumed_KeepsSidecars(f, d) ==
    [dirs |-> f.dirs,
     meta |-> [f.meta EXCEPT ![d] =
                [isfile |-> TRUE, parses |-> TRUE,
                 playlist_count |-> IF f.dirs[d].infos[1].parses
                                    THEN f.dirs[d].infos[1].playlist_count ELSE <<>>,
                 songs |-> SelectSeq(Tail(f.dirs[d].infos), LAMBDA sc : sc.parses),
                 tracks |-> <<>>]]]

\* The directory after a pass has dealt with it: the first sidecar moved to
\* .metadata/<name>.json and rewritten with the others folded into "songs",
\* the others deleted.
Consumed(f, d) ==
    LET infos == f.dirs[d].infos
    IN  [dirs |-> [f.dirs EXCEPT ![d].infos = <<>>],
         meta |-> [f.meta EXCEPT ![d] =
                    [isfile |-> TRUE, parses |-> TRUE,
                     playlist_count |-> IF infos[1].parses
                                        THEN infos[1].playlist_count ELSE <<>>,
                     songs |-> SelectSeq(Tail(infos), LAMBDA sc : sc.parses),
                     tracks |-> <<>>]]]

\* The directory when the pass is left between the rename of the first
\* sidecar and the rewrite.
Renamed(f, d) ==
    [dirs |-> [f.dirs EXCEPT ![d].infos = Tail(@)],
     meta |-> [f.meta EXCEPT ![d] = SidecarDoc(f.dirs[d].infos[1])]]

Returned(f, songs) == [fs |-> f, status |-> "returned", missing |-> songs]
Raised(f, what) == [fs |-> f, status |-> what, missing |-> <<>>]

-----------------------------------------------------------------------------
(* cleanup_ytdlp_metadata *)

\* The loop over output_dir.iterdir(), the directories taken in this order.
RECURSIVE YtdlpLoop(_, _, _)
YtdlpLoop(f, order, acc) ==
    IF order = <<>> THEN Returned(f, acc)
    ELSE LET d == Head(order)
         IN  IF f.dirs[d].infos = <<>> THEN YtdlpLoop(f, Tail(order), acc)
             ELSE YtdlpLoop(Consumed(f, d), Tail(order),
                            acc \o MissingSongs(d, f.dirs[d].infos, f.dirs[d].audio))

cleanup_ytdlp_metadata(f, order) == YtdlpLoop(f, order, <<>>)

-----------------------------------------------------------------------------
(* cleanupscdlmetadata *)

\* Song is called with the keywords songurl, playlisturl and listposition,
\* which Song.__init__ does not have: the call raises TypeError.
RECURSIVE ScdlLoop(_, _, _)
ScdlLoop(f, order, acc) ==
    IF order = <<>> THEN Returned(f, acc)
    ELSE LET d == Head(order)
         IN  IF f.dirs[d].infos = <<>> THEN ScdlLoop(f, Tail(order), acc)
             ELSE IF MissingSongs(d, f.dirs[d].infos, f.dirs[d].audio) # <<>>
                 THEN Raised(Renamed(f, d), "TypeError")
             ELSE ScdlLoop(Consumed(f, d), Tail(order), acc)

cleanupscdlmetadata(f, order) == ScdlLoop(f, order, <<>>)

-----------------------------------------------------------------------------
(* check_missing_tracks_with_metadata_spotify *)

NoneName == <<"None">>

\* track = track_item.get("track") or track_item
TrackOf(item) == IF item.track # <<>> THEN item.track[1] ELSE item.own

\* SpotifySongs with the number of files present as the expected count.
SpotifySongs_CountsFiles(name, tracks, audio) ==
    LET nums == MissingNumbers(Cardinality(audio), PresentNumbers(audio, SpotifySuffixes))
        have == SelectSeq(nums, LAMBDA n : n - 1 < Len(tracks))
    IN  [i \in 1..Len(have) |->
            Song(name, Len(tracks),
                 ZeroPad(have[i], PaddingOf(audio, SpotifySuffixes)),
                 TrackOf(tracks[have[i]]))]

SpotifySongs(name, tracks, audio) ==
    LET nums == MissingNumbers(Len(tracks), PresentNumbers(audio, SpotifySuffixes))
        have == SelectSeq(nums, LAMBDA n : n - 1 < Len(tracks))
    IN  [i \in 1..Len(have) |->
            Song(name, Len(tracks),
                 ZeroPad(have[i], PaddingOf(audio, SpotifySuffixes)),
                 TrackOf(tracks[have[i]]))]

\* output_dir / playlist_name raises TypeError when playlist_name is None.
check_missing_tracks_with_metadata_spotify(f, name) ==
    IF name = NoneName THEN Raised(f, "TypeError")
    ELSE IF name \notin Playlists \/ ~f.meta[name].isfile THEN Returned(f, <<>>)
    ELSE IF ~IsDir(f, name) THEN Returned(f, <<>>)
    ELSE IF ~f.meta[name].parses THEN Returned(f, <<>>)
    ELSE IF Numbered(f.dirs[name].audio, SpotifySuffixes) = {} THEN Returned(f, <<>>)
    ELSE Returned(f, SpotifySongs(name, f.meta[name].tracks, f.dirs[name].audio))

-----------------------------------------------------------------------------
(* The Orchestrator: main and the three phase functions *)

Phases == {"soundcloud", "youtube", "spotify"}

NoLoop == [links |-> <<>>, i |-> 0, name |-> NoneName, exit_code |-> 0, how |-> "none"]
NotRun == [state |-> "notrun", code |-> 0]
Running == [state |-> "running", code |-> 0]
NotExited == [exited |-> FALSE, code |-> 0, exception |-> "none"]

\* The Orchestrator's variables in the specifications that do not run it.
MainOff ==
    /\ env = [creds |-> TRUE, inputFile |-> "ok"]
    /\ pc = "off"
    /\ phase = "none"
    /\ loop = NoLoop
    /\ results = [ph \in Phases |-> NotRun]
    /\ calls = <<>>
    /\ exit = NotExited

\* The lines an input file of a run is made of.
P1 == <<"p", "1">>
RunLines ==
    {<<SC, "x">>,
     <<YT, "x">>,
     <<SPOTIFY_PREFIX, "playlist/", "x">>,
     <<SPOTIFY_PREFIX, "show/", "x">>,
     <<"#", "x">>}
RunFiles == UNION {[1..n -> RunLines] : n \in 0..MaxFileLines}

\* What one downloader process leaves in a playlist directory.  scdl and
\* yt-dlp are run with --write-info-json; spotdl writes no sidecar.
CountSidecar(n) == [parses |-> TRUE, playlist_count |-> <<n>>]
Deliveries(ph) ==
    IF ph = "spotify"
    THEN {[dir |-> P1, infos |-> <<>>, audio |-> {}],
          [dir |-> P1, infos |-> <<>>, audio |-> {AudioFile(<<0, 1>>, "mp3")}]}
    ELSE {[dir |-> P1, infos |-> <<>>, audio |-> {}],
          [dir |-> P1, infos |-> <<CountSidecar(1)>>, audio |-> {AudioFile(<<0, 1>>, "mp3")}],
          [dir |-> P1, infos |-> <<CountSidecar(2)>>, audio |-> {AudioFile(<<0, 1>>, "mp3")}]}
Deliver(f, dl) ==
    [f EXCEPT !.dirs[dl.dir].infos = @ \o dl.infos,
              !.dirs[dl.dir].audio = @ \cup dl.audio]

\* How subprocess.run ends: the process exits with a code, the timeout
\* expires, or the process cannot be launched.
ExitCodes == 0..MaxExitCode
Outcomes ==
    {[how |-> "exit", code |-> c] : c \in ExitCodes}
        \cup {[how |-> "timeout", code |-> 0], [how |-> "oserror", code |-> 0]}

\* The code the three run_..._for_link functions return.  how, in the loop
\* record, is the way the subprocess of the link at hand has ended.
ReturnCode_TimeoutIsZero(o) == IF o.how = "exit" THEN o.code ELSE 0

ReturnCode(o) == IF o.how = "exit" THEN o.code ELSE 1

\* The words of a URL getImage looks for, in its order.
KindWords(t) ==
    CASE t = "album/" -> {"album"}
      [] t = "playlist/" -> {"playlist"}
      [] t = "artist/" -> {"artist"}
      [] t = "track/" -> {"track"}
      [] OTHER -> {}
HasWord(u, w) == \E k \in 1..Len(u) : w \in KindWords(u[k])
UrlKind(u) ==
    IF HasWord(u, "album") THEN "album"
    ELSE IF HasWord(u, "playlist") THEN "playlist"
    ELSE IF HasWord(u, "artist") THEN "artist"
    ELSE IF HasWord(u, "track") THEN "track"
    ELSE "unknown"

\* safe_name: the characters that are alphanumeric or one of ' ', '-', '_',
\* trailing white space removed.
IsKept(c) == c \notin {"!", "/", ":", "?"}
SafeName(name) == RStrip(SelectSeq(name, IsKept))

\* The names the upstream API gives the entities, and their track listings.
EntityNames == {<<"p", "1">>, <<"p", "2", "!">>}
EntityTracks == {0, MaxTracks}

\* sys.exit(code), and the end of the process by an uncaught exception.
SysExit(code) == exit' = [exited |-> TRUE, code |-> code, exception |-> "none"]
Uncaught(what) == exit' = [exited |-> TRUE, code |-> 1, exception |-> what]

Log(op, code) ==
    calls' = Append(calls, [phase |-> phase, op |-> op, idx |-> loop.i, code |-> code])

\* The order of the phases in main.
FirstPhase_YouTube == "youtube"

FirstPhase == "soundcloud"

PhaseAfter(ph) == IF ph = "soundcloud" THEN "youtube" ELSE "spotify"

\* The first step of a link in the loop of a phase function.
FirstStep_NoFetch(ph) == "invoke"

FirstStep(ph) == IF ph = "spotify" THEN "fetch" ELSE "invoke"

\* for i, link in enumerate(links, 1): whether the loop goes on after link i.
LoopGoesOn_StopsOnFailure(l) == l.i < Len(l.links) /\ l.exit_code = 0

LoopGoesOn(l) == l.i < Len(l.links)

InitMain ==
    /\ env \in [creds : BOOLEAN, inputFile : {"ok", "missing", "unreadable"}]
    /\ input \in (IF env.inputFile = "ok" THEN RunFiles ELSE {<<>>})
    /\ url = <<>>
    /\ links = NoLinks
    /\ xpc = "none"
    /\ fs = EmptyFs
    /\ fsBefore = EmptyFs
    /\ passes = <<>>
    /\ pc = "main"
    /\ phase = "none"
    /\ loop = NoLoop
    /\ results = [ph \in Phases |-> NotRun]
    /\ calls = <<>>
    /\ exit = NotExited

\* main up to the first phase: input_file.is_file()
MainStart ==
    /\ pc = "main"
    /\ IF env.inputFile = "missing"
       THEN /\ SysExit(1)
            /\ pc' = "exited"
            /\ UNCHANGED <<phase, results>>
       ELSE /\ pc' = "enter"
            /\ phase' = FirstPhase
            /\ results' = [results EXCEPT ![FirstPhase] = Running]
            /\ UNCHANGED exit
    /\ UNCHANGED <<extractVars, reconcileVars, env, loop, calls>>

\* A phase function up to its loop.  spotify_main first logs CLIENT_ID[:8],
\* which raises TypeError when the variable is not set.  links holds what
\* read_links has returned to the phase function.
Enter ==
    /\ pc = "enter"
    /\ IF phase = "spotify" /\ ~env.creds
       THEN /\ Uncaught("TypeError")
            /\ pc' = "exited"
            /\ results' = [results EXCEPT ![phase] = [state |-> "raised", code |-> 0]]
            /\ UNCHANGED <<links, loop>>
       ELSE /\ links' = read_links(env.inputFile # "unreadable", input)
            /\ IF links'[phase] = <<>>
               THEN /\ pc' = "returned"
                    /\ loop' = NoLoop
                    /\ results' = [results EXCEPT ![phase] =
                                    [state |-> "returned", code |-> 0]]
                    /\ UNCHANGED exit
               ELSE /\ pc' = FirstStep(phase)
                    /\ loop' = [links |-> links'[phase], i |-> 1, name |-> NoneName,
                                exit_code |-> 0, how |-> "none"]
                    /\ UNCHANGED <<exit, results>>
    /\ UNCHANGED <<input, url, xpc, reconcileVars, env, phase, calls>>

\* getImage(link, output_dir, logger).  The else branch logs the local
\* variable type, which no branch has bound: UnboundLocalError.  The API
\* call of the other branches raises when the API refuses it.
Fetch ==
    /\ pc = "fetch"
    /\ IF UrlKind(loop.links[loop.i]) = "unknown"
       THEN /\ Uncaught("UnboundLocalError")
            /\ pc' = "exited"
            /\ results' = [results EXCEPT ![phase] = [state |-> "raised", code |-> 0]]
            /\ UNCHANGED <<fs, loop, calls>>
       ELSE \/ /\ Uncaught("SpotifyException")
               /\ pc' = "exited"
               /\ results' = [results EXCEPT ![phase] = [state |-> "raised", code |-> 0]]
               /\ UNCHANGED <<fs, loop, calls>>
            \/ \E ename \in EntityNames : \E n \in EntityTracks :
               /\ fs' = [fs EXCEPT !.meta[SafeName(ename)] = SpotifyDoc(n)]
               /\ loop' = [loop EXCEPT !.name = ename]
               /\ Log("fetch", 0)
               /\ pc' = "invoke"
               /\ UNCHANGED <<exit, results>>
    /\ UNCHANGED <<extractVars, fsBefore, passes, env, phase>>

\* run_scdl_for_link, run_ytdlp_for_link or run_spotdl_for_link, and the
\* test of the code it returns.
Invoke ==
    /\ pc = "invoke"
    /\ \E o \in Outcomes : \E dl \in Deliveries(phase) :
        /\ fs' = Deliver(fs, dl)
        /\ Log("download", ReturnCode(o))
        /\ loop' = [loop EXCEPT !.exit_code =
                        IF ReturnCode(o) # 0 THEN ReturnCode(o) ELSE @,
                                 !.how = o.how]
    /\ pc' = "reconcile"
    /\ UNCHANGED <<extractVars, fsBefore, passes, env, phase, results, exit>>

\* The Reconciler of the phase, and the end of the loop body.
PassOf(ph, f, order, name) ==
    IF ph = "soundcloud" THEN cleanupscdlmetadata(f, order)
    ELSE IF ph = "youtube" THEN cleanup_ytdlp_metadata(f, order)
    ELSE check_missing_tracks_with_metadata_spotify(f, name)

Reconcile ==
    /\ pc = "reconcile"
    /\ \E order \in Orders :
        LET r == PassOf(phase, fs, order, loop.name)
        IN  /\ fs' = r.fs
            /\ IF r.status # "returned"
               THEN /\ Uncaught(r.status)
                    /\ pc' = "exited"
                    /\ results' = [results EXCEPT ![phase] =
                                    [state |-> "raised", code |-> 0]]
                    /\ UNCHANGED <<loop, calls>>
               ELSE /\ Log("reconcile", 0)
                    /\ UNCHANGED exit
                    /\ IF LoopGoesOn(loop)
                       THEN /\ loop' = [loop EXCEPT !.i = @ + 1, !.name = NoneName,
                                                     !.how = "none"]
                            /\ pc' = FirstStep(phase)
                            /\ UNCHANGED results
                       ELSE /\ pc' = "returned"
                            /\ results' = [results EXCEPT ![phase] =
                                    [state |-> "returned", code |-> loop.exit_code]]
                            /\ UNCHANGED loop
    /\ UNCHANGED <<extractVars, fsBefore, passes, env, phase>>

\* main after a phase function has returned.
Return ==
    /\ pc = "returned"
    /\ IF results[phase].code # 0
       THEN /\ SysExit(results[phase].code)
            /\ pc' = "exited"
            /\ UNCHANGED <<phase, results>>
       ELSE IF phase = "spotify"
       THEN /\ SysExit(0)
            /\ pc' = "exited"
            /\ UNCHANGED <<phase, results>>
       ELSE /\ phase' = PhaseAfter(phase)
            /\ results' = [results EXCEPT ![PhaseAfter(phase)] = Running]
            /\ pc' = "enter"
            /\ UNCHANGED exit
    /\ UNCHANGED <<extractVars, reconcileVars, env, loop, calls>>

NextMain == MainStart \/ Enter \/ Fetch \/ Invoke \/ Reconcile \/ Return

SpecMain == InitMain /\ [][NextMain]_vars

-----------------------------------------------------------------------------
(* Reconciler passes over an output directory the tools have written to *)

AnOrder == CHOOSE o \in Orders : TRUE
TotalInfos(f) == Len(Concat([i \in DOMAIN AnOrder |-> f.dirs[AnOrder[i]].infos]))
TotalFiles(f) ==
    TotalInfos(f)
        + Cardinality({<<d, a>> \in Playlists \X AudioFiles : a \in f.dirs[d].audio})
        + Cardinality({d \in Playlists : f.meta[d].isfile})

InitReconcile ==
    /\ input = <<>>
    /\ url = <<>>
    /\ links = NoLinks
    /\ xpc = "none"
    /\ fs = EmptyFs
    /\ fsBefore = EmptyFs
    /\ passes = <<>>
    /\ MainOff

\* A downloader leaves a sidecar file in a playlist directory.
WriteSidecar ==
    /\ passes = <<>>
    /\ TotalInfos(fs) < MaxInfos
    /\ TotalFiles(fs) < MaxFiles
    /\ \E d \in Playlists : \E sc \in Sidecars :
        fs' = [fs EXCEPT !.dirs[d].infos = Append(@, sc)]
    /\ UNCHANGED <<extractVars, fsBefore, passes, mainVars>>

\* A downloader leaves an audio file in a playlist directory.
WriteAudio ==
    /\ passes = <<>>
    /\ TotalFiles(fs) < MaxFiles
    /\ \E d \in Playlists : \E a \in AudioFiles \ fs.dirs[d].audio :
        fs' = [fs EXCEPT !.dirs[d].audio = @ \cup {a}]
    /\ UNCHANGED <<extractVars, fsBefore, passes, mainVars>>

\* The Metadata Fetcher leaves a document in .metadata.
WriteMetadata ==
    /\ passes = <<>>
    /\ TotalFiles(fs) < MaxFiles
    /\ \E d \in Playlists : \E doc \in FetchedDocs :
        /\ ~fs.meta[d].isfile
        /\ fs' = [fs EXCEPT !.meta[d] = doc]
    /\ UNCHANGED <<extractVars, fsBefore, passes, mainVars>>

\* A pass is made on the directory as written, and a second one of the same
\* Reconciler on what the first left.
MayPass(variant, arg) ==
    \/ passes = <<>>
    \/ Len(passes) = 1 /\ passes[1].variant = variant /\ passes[1].arg = arg

Pass(variant, arg, r) ==
    /\ fs' = r.fs
    /\ fsBefore' = fs
    /\ passes' = Append(passes,
            [variant |-> variant, arg |-> arg, status |-> r.status,
             missing |-> r.missing])
    /\ UNCHANGED <<extractVars, mainVars>>

PassYtdlp ==
    \E order \in Orders :
        /\ MayPass("ytdlp", order)
        /\ Pass("ytdlp", order, cleanup_ytdlp_metadata(fs, order))

PassScdl ==
    \E order \in Orders :
        /\ MayPass("scdl", order)
        /\ Pass("scdl", order, cleanupscdlmetadata(fs, order))

PassSpotify ==
    \E name \in Playlists :
        /\ MayPass("spotify", <<name>>)
        /\ Pass("spotify", <<name>>, check_missing_tracks_with_metadata_spotify(fs, name))

NextReconcile ==
    \/ WriteSidecar
    \/ WriteAudio
    \/ WriteMetadata
    \/ PassYtdlp
    \/ PassScdl
    \/ PassSpotify

SpecReconcile == InitReconcile /\ [][NextReconcile]_vars

-----------------------------------------------------------------------------
(* The Extractor applied to one line *)

InitExtract ==
    /\ input \in {<<l>> : l \in Lines}
    /\ url = <<>>
    /\ links = NoLinks
    /\ xpc = "line"
    /\ fs = EmptyFs
    /\ fsBefore = EmptyFs
    /\ passes = <<>>
    /\ MainOff

CleanUrl ==
    /\ xpc = "line"
    /\ url' = clean_url(input[1])
    /\ xpc' = "cleaned"
    /\ UNCHANGED <<input, links, reconcileVars, mainVars>>

ReadLinks ==
    /\ xpc = "cleaned"
    /\ links' = read_links(TRUE, input)
    /\ xpc' = "read"
    /\ UNCHANGED <<input, url, reconcileVars, mainVars>>

NextExtract == CleanUrl \/ ReadLinks

SpecExtract == InitExtract /\ [][NextExtract]_vars

-----------------------------------------------------------------------------
(* Claims about the Extractor *)

Heads == YouTubeHeads \cup SoundCloudHeads \cup SpotifyHeads

IsComment(raw) == raw # <<>> /\ raw[1] = "#"
IsBlank(raw) == Strip(raw) = <<>>
MentionsDomain(raw) ==
    \E d \in {"youtube.com", "youtu.be", "soundcloud.com", "spotify.com"} :
        Contains(raw, d)

\* A link clean_url can extract, stated without the search functions: a
\* YouTube or SoundCloud URL with a non-empty path anywhere in the line, a
\* Spotify URL with a non-empty path between parentheses, or the literal
\* Spotify prefix at the start of the trimmed line.
HasPlainUrl(s) ==
    \E i \in 1..(Len(s) - 1) :
        s[i] \in YouTubeHeads \cup SoundCloudHeads /\ s[i + 1] \notin {" ", ")"}
HasParenSpotify(s) ==
    \E i \in 1..Len(s) : \E j \in (i + 2)..(Len(s) - 1) :
        /\ s[i] = "("
        /\ s[i + 1] \in SpotifyHeads
        /\ \A k \in (i + 2)..j : s[k] \notin {" ", ")"}
        /\ s[j + 1] = ")"
StartsWithSpotify(s) == s # <<>> /\ s[1] = SPOTIFY_PREFIX
Extractable(raw) ==
    \/ HasPlainUrl(Strip(raw))
    \/ HasParenSpotify(Strip(raw))
    \/ StartsWithSpotify(Strip(raw))

\* C9 as stated: an accepted line yields a URL that starts with one of the
\* recognised domain prefixes, and every rejected line is blank, begins with
\* '#', or contains none of the three domains.
C9_Original ==
    xpc # "line" =>
        /\ url # <<>> => url[1] \in Heads
        /\ url = <<>> =>
            IsBlank(input[1]) \/ IsComment(input[1]) \/ ~MentionsDomain(input[1])

\* C9 amended: an accepted line yields a URL that starts with one of the
\* recognised domain prefixes, and every rejected line is blank, begins with
\* '#', or holds no extractable link (no YouTube or SoundCloud URL with a
\* path, no parenthesised Spotify URL with a path, no Spotify prefix at its
\* start); containing one of the domains is not enough to be accepted.
C9_CleanUrlAcceptsOrRejects ==
    xpc # "line" =>
        /\ url # <<>> => url[1] \in Heads
        /\ url = <<>> =>
            IsBlank(input[1]) \/ IsComment(input[1]) \/ ~Extractable(input[1])

\* A rejected line that is neither blank nor a comment and names a domain: a
\* Spotify URL that follows some text and is not in parentheses.
C9_Witness ==
    /\ xpc = "cleaned"
    /\ url = <<>>
    /\ input[1] = <<"x", " ", SPOTIFY_PREFIX, "x">>

InList(l, u) == \E i \in 1..Len(l) : l[i] = u

\* C10 as stated: read_links files every accepted link under exactly one
\* kind; a link containing soundcloud.com goes to the soundcloud list, one
\* containing youtube.com or youtu.be to the youtube list, and a link goes
\* to the spotify list only when it contains spotify.com and neither a
\* soundcloud nor a youtube domain.
C10_TagFollowsDomain ==
    (xpc = "read" /\ url # <<>>) =>
        /\ Len(links.spotify) + Len(links.soundcloud) + Len(links.youtube) = 1
        /\ Contains(url, "soundcloud.com") => InList(links.soundcloud, url)
        /\ (/\ Contains(url, "youtube.com") \/ Contains(url, "youtu.be")
            /\ ~Contains(url, "soundcloud.com")) => InList(links.youtube, url)
        /\ InList(links.spotify, url) =>
            /\ Contains(url, "spotify.com")
            /\ ~Contains(url, "soundcloud.com")
            /\ ~Contains(url, "youtube.com")
            /\ ~Contains(url, "youtu.be")

-----------------------------------------------------------------------------
(* Claims about the Reconcilers *)

FsVariants == {"ytdlp", "scdl"}
LastPass == passes[Len(passes)]

\* The missing ordinals a pass reported, per playlist.
Reported(p) ==
    {<<p.missing[i].playlist, IntOf(p.missing[i].list_position)>> :
        i \in 1..Len(p.missing)}

\* The ordinals a filesystem-count pass has to report for a directory it
\* finds with this content: {1..expected} minus the present ones.
Expected(dir) ==
    IF dir.infos[1].parses /\ dir.infos[1].playlist_count # <<>>
        THEN dir.infos[1].playlist_count[1]
    ELSE Len(dir.infos)
Present(dir, exts) ==
    {IntOf(a.digits) : a \in {b \in dir.audio : b.ext \in exts /\ b.digits # <<>>}}
Width(dir, exts) ==
    Max({0} \cup {Len(a.digits) : a \in {b \in dir.audio : b.ext \in exts /\ b.digits # <<>>}})
ToReport(f) ==
    {<<d, n>> \in Playlists \X (1..(MaxCount + MaxInfos)) :
        /\ f.dirs[d].infos # <<>>
        /\ n \in (1..Expected(f.dirs[d])) \ Present(f.dirs[d], Mp3Only)}

\* C5 as stated: two passes of a filesystem-count Reconciler in a row, with
\* nothing else writing to the directory, report the same missing ordinals
\* per playlist.
C5_Original ==
    (/\ Len(passes) = 2
     /\ LastPass.variant \in FsVariants
     /\ passes[1].status = "returned"
     /\ passes[2].status = "returned") => Reported(passes[2]) = Reported(passes[1])

\* C5 amended: after a pass of a filesystem-count Reconciler that returns, no
\* playlist directory holds a sidecar file any more, and a second pass with
\* nothing written in between returns an empty list: what the first pass
\* reported missing is not reported again.
C5_SecondPassReportsNothing ==
    (/\ Len(passes) = 2
     /\ LastPass.variant \in FsVariants
     /\ passes[1].status = "returned") =>
        /\ \A d \in Playlists : fsBefore.dirs[d].infos = <<>>
        /\ passes[2].status = "returned"
        /\ passes[2].missing = <<>>

\* A first pass that reported missing ordinals, followed by a second pass.
C5_Witness ==
    /\ Len(passes) = 2
    /\ LastPass.variant = "ytdlp"
    /\ passes[1].missing # <<>>
    /\ passes[2].missing = <<>>

\* One pass of the named Reconciler returns exactly one record for every
\* ordinal of {1..expected} minus the present ordinals, for every playlist
\* directory that holds a sidecar file, and no other record.
MissingSetCorrect(variant) ==
    (passes # <<>> /\ LastPass.variant = variant) =>
        /\ LastPass.status = "returned"
        /\ Reported(LastPass) = ToReport(fsBefore)
        /\ Len(LastPass.missing) = Cardinality(ToReport(fsBefore))

\* C6: both filesystem-count Reconcilers return exactly one missing-track
\* record per ordinal of {1..expected} minus the present ordinals, for every
\* playlist directory with a sidecar file.
C6_MissingSetCorrect == MissingSetCorrect("ytdlp") /\ MissingSetCorrect("scdl")

\* The suffixes the named Reconciler counts as audio.
SuffixesOf(variant) == IF variant = "spotify" THEN SpotifySuffixes ELSE Mp3Only

\* Every ordinal a pass of the named Reconciler finds missing is reported as
\* "Missing <n>", n written with leading zeros to the width of the playlist
\* directory: the largest digit count among its present audio files.
PaddingCorrect(variant) ==
    (passes # <<>> /\ LastPass.variant = variant) =>
        /\ LastPass.status = "returned"
        /\ \A i \in 1..Len(LastPass.missing) :
            LET r == LastPass.missing[i]
                n == IntOf(r.list_position)
                w == Width(fsBefore.dirs[r.playlist], SuffixesOf(variant))
            IN  /\ r.error = <<"Missing">> \o r.list_position
                /\ Len(r.list_position) = Max({w, Len(DigitsOf(n))})
                /\ \A k \in 1..Len(r.list_position) : r.list_position[k] \in 0..9

\* C7: in every Reconciler the missing ordinals are reported zero-padded to
\* the playlist directory's padding width.
C7_PaddingCorrect ==
    PaddingCorrect("ytdlp") /\ PaddingCorrect("scdl") /\ PaddingCorrect("spotify")

\* The case C8 is about: the metadata-authoritative pass on a playlist with a
\* readable metadata document and at least one numbered audio file.
SpotifyCase ==
    /\ passes # <<>>
    /\ LastPass.variant = "spotify"
    /\ fsBefore.meta[LastPass.arg[1]].isfile
    /\ fsBefore.meta[LastPass.arg[1]].parses
    /\ Present(fsBefore.dirs[LastPass.arg[1]], SpotifySuffixes) # {}

\* One record per ordinal of {1..N} minus the present ordinals, N the length
\* of the track listing, however many files are present.
SpotifyOrdinals ==
    LET name == LastPass.arg[1]
        n == Len(fsBefore.meta[name].tracks)
    IN  /\ LastPass.status = "returned"
        /\ Reported(LastPass) =
            {name} \X ((1..n) \ Present(fsBefore.dirs[name], SpotifySuffixes))
        /\ Len(LastPass.missing) = Cardinality(Reported(LastPass))

\* The track a record is about: the item at its ordinal, 1-indexed.
ItemOf(r) ==
    LET item == fsBefore.meta[r.playlist].tracks[IntOf(r.list_position)]
    IN  IF item.track # <<>> THEN item.track[1] ELSE item.own

\* C8 as stated: one record per ordinal of {1..N} minus P, and each record's
\* title, artists and source URL are those of the track item at its position.
C8_Original ==
    SpotifyCase =>
        /\ SpotifyOrdinals
        /\ \A i \in 1..Len(LastPass.missing) :
            LET r == LastPass.missing[i]
            IN  /\ r.title = ItemOf(r).name
                /\ r.artists = ItemOf(r).artists
                /\ r.song_url = ItemOf(r).spotify

\* C8 amended: one record per ordinal of {1..N} minus P; each record's artists
\* and source URL are those of the track item at its position, and its title
\* is that item's name with leading and trailing white space removed.
C8_SpotifyMissingRecords ==
    SpotifyCase =>
        /\ SpotifyOrdinals
        /\ \A i \in 1..Len(LastPass.missing) :
            LET r == LastPass.missing[i]
            IN  /\ r.title = Strip(ItemOf(r).name)
                /\ r.artists = ItemOf(r).artists
                /\ r.song_url = ItemOf(r).spotify

\* Three tracks listed and one file, "01 A.mp3", present: two records, "02"
\* and "03", named after the second and third track.
C8_Witness ==
    /\ SpotifyCase
    /\ Len(LastPass.missing) = 2
    /\ LastPass.missing[1].list_position = <<0, 2>>
    /\ LastPass.missing[2].list_position = <<0, 3>>
    /\ LastPass.missing[1].title = <<"t", "t">>
    /\ LastPass.missing[2].title = <<"t", "t", "t">>

-----------------------------------------------------------------------------
(* Claims about the Orchestrator *)

\* The links of a kind in what read_links returned; every phase function
\* reads the same input file.
LinksOf(ph) == links[ph]

Rank(ph) == IF ph = "soundcloud" THEN 1 ELSE IF ph = "youtube" THEN 2 ELSE 3

\* The positions in the log of the calls of one kind a phase has made.
CallsOf(ph, op) == {k \in 1..Len(calls) : calls[k].phase = ph /\ calls[k].op = op}
Failures(ph) == {k \in CallsOf(ph, "download") : calls[k].code # 0}
AllFailures == UNION {Failures(ph) : ph \in Phases}

\* The links the calls of one kind were made for, in the order of the calls.
LinksCalled(ph, op) ==
    LET these == SelectSeq(calls, LAMBDA c : c.phase = ph /\ c.op = op)
    IN  [k \in 1..Len(these) |-> these[k].idx]

OneToN(n) == [k \in 1..n |-> k]

C2_FailurePropagates ==
    (pc = "exited" /\ AllFailures # {}) =>
        LET ph == calls[CHOOSE k \in AllFailures : \A j \in AllFailures : k <= j].phase
            last == CHOOSE k \in Failures(ph) : \A j \in Failures(ph) : j <= k
        IN  /\ \A k \in 1..Len(calls) : Rank(calls[k].phase) <= Rank(ph)
            /\ exit.code # 0
            /\ exit.code = calls[last].code

\* Every link of the phase has been through its Invoker and its Reconciler.
FullyProcessed(ph) ==
    /\ LinksCalled(ph, "download") = OneToN(Len(LinksOf(ph)))
    /\ LinksCalled(ph, "reconcile") = OneToN(Len(LinksOf(ph)))

\* C3: the phases run in the order SoundCloud, YouTube, Spotify.  No call of
\* the YouTube phase is made before the last SoundCloud link has been fully
\* processed, and no call of the Spotify phase before the last YouTube link
\* has been.
C3_PhaseOrder ==
    /\ \A j, k \in 1..Len(calls) :
        j < k => Rank(calls[j].phase) <= Rank(calls[k].phase)
    /\ (results["youtube"].state # "notrun" \/ \E k \in 1..Len(calls) : calls[k].phase = "youtube")
        => FullyProcessed("soundcloud")
    /\ (results["spotify"].state # "notrun" \/ \E k \in 1..Len(calls) : calls[k].phase = "spotify")
        => FullyProcessed("soundcloud") /\ FullyProcessed("youtube")

\* A run that has downloaded a link in each of the three phases.
C3_Witness ==
    /\ CallsOf("soundcloud", "download") # {}
    /\ CallsOf("youtube", "download") # {}
    /\ CallsOf("spotify", "download") # {}

\* C4: a phase whose kind has no link in the input file returns exit code 0
\* and invokes neither a downloader nor a Reconciler nor the Metadata
\* Fetcher.
C4_EmptyPhaseReturnsZero ==
    \A ph \in Phases :
        (results[ph].state \notin {"notrun", "running"} /\ LinksOf(ph) = <<>>) =>
            /\ results[ph] = [state |-> "returned", code |-> 0]
            /\ \A k \in 1..Len(calls) : calls[k].phase # ph

\* The link the loop of the Spotify phase is at has been through getImage.
Fetched ==
    /\ phase = "spotify"
    /\ loop.i \in 1..Len(loop.links)
    /\ pc \in {"invoke", "reconcile", "returned", "exited"}
    /\ results["spotify"].state # "notrun"

\* C11: for a Spotify link whose URL holds none of the words album,
\* playlist, artist and track, getImage returns None without raising, and the
\* Spotify phase goes on with the remaining links: the run is not ended by an
\* exception at that link.
C11_UnknownKindIsSkipped ==
    (Fetched /\ UrlKind(loop.links[loop.i]) = "unknown") =>
        /\ exit.exception = "none"
        /\ results["spotify"].state # "raised"
        /\ loop.name = NoneName


\* C12: when the input file exists but cannot be read, no downloader is
\* invoked in any phase and the process does not exit with code 0.
C12_UnreadableInputIsFatal ==
    env.inputFile = "unreadable" =>
        /\ \A k \in 1..Len(calls) : calls[k].op # "download"
        /\ pc = "exited" => exit.code # 0


\* C13: when the two credential variables are absent the run is not ended by
\* an uncaught error of the Spotify phase: a Spotify phase without links
\* returns 0, and a Spotify phase with links ends with a failure code
\* returned by spotify_main, not with an exception.
C13_AbsentCredentialsDoNotAbort ==
    (~env.creds /\ results["spotify"].state # "notrun") =>
        /\ results["spotify"].state # "raised"
        /\ exit.exception = "none"
        /\ (results["spotify"].state = "returned" /\ LinksOf("spotify") = <<>>)
            => results["spotify"].code = 0
        /\ (results["spotify"].state = "returned" /\ LinksOf("spotify") # <<>>)
            => results["spotify"].code # 0


\* The subprocess of the link at hand timed out or could not be launched.
NotRunToExit == loop.how \in {"timeout", "oserror"}

\* C14: a subprocess timeout and a failure to launch the subprocess both make
\* the Invoker return exit code 1 without raising, and the Orchestrator treats
\* the link as failed, as for a nonzero exit code of the process: the code 1
\* becomes the exit code of the phase, the Reconciler of the link still runs,
\* and a phase or a process that ends after it without an exception ends
\* with code 1.
C14_TimeoutAndLaunchFailureReturnOne ==
    NotRunToExit =>
        /\ CallsOf(phase, "download") # {}
        /\ LET last == Max(CallsOf(phase, "download"))
           IN  calls[last].idx = loop.i /\ calls[last].code = 1
        /\ loop.exit_code = 1
        /\ pc = "reconcile" => ~exit.exited
        /\ results[phase].state = "returned" => results[phase].code = 1
        /\ (pc = "exited" /\ exit.exception = "none") => exit.code = 1

\* A run that has exited after the download of its last link timed out.
C14_Witness ==
    /\ pc = "exited"
    /\ loop.how = "timeout"
    /\ exit = [exited |-> TRUE, code |-> 1, exception |-> "none"]
    /\ \E k \in CallsOf(phase, "reconcile") : calls[k].idx = loop.i


\* Call k of the log is this step of this link.
IsCall(k, ph, op, idx) ==
    /\ k \in 1..Len(calls)
    /\ calls[k].phase = ph
    /\ calls[k].op = op
    /\ calls[k].idx = idx

\* Call k is the first step of a link: of the first link of its phase, or of
\* the link after the one whose Reconciler has just returned.
StartsLink(k) ==
    \/ calls[k].idx = 1 /\ (k = 1 \/ calls[k - 1].phase # calls[k].phase)
    \/ IsCall(k - 1, calls[k].phase, "reconcile", calls[k].idx - 1)

\* C15: the steps of every link run strictly in sequence.  In the Spotify
\* phase the Metadata Fetcher has returned before the Invoker starts; the
\* Reconciler starts only after the Invoker of the same link has returned;
\* the first step of the next link starts only after the Reconciler of this
\* link has returned.  No two steps are under way at once.
C15_StepsInSequence ==
    /\ \A k \in 1..Len(calls) :
        LET c == calls[k]
        IN  /\ c.op = "fetch" => c.phase = "spotify" /\ StartsLink(k)
            /\ c.op = "download" =>
                IF c.phase = "spotify" THEN IsCall(k - 1, c.phase, "fetch", c.idx)
                ELSE StartsLink(k)
            /\ c.op = "reconcile" => IsCall(k - 1, c.phase, "download", c.idx)
    /\ pc = "reconcile" => IsCall(Len(calls), phase, "download", loop.i)
    /\ (pc = "invoke" /\ phase = "spotify") => IsCall(Len(calls), phase, "fetch", loop.i)
    /\ (pc = "fetch" /\ loop.i > 1) => IsCall(Len(calls), phase, "reconcile", loop.i - 1)

\* A run in which the second Spotify link has been fetched, after the three
\* steps of the first one.
C15_Witness ==
    \E k \in 4..Len(calls) :
        /\ IsCall(k, "spotify", "fetch", 2)
        /\ IsCall(k - 1, "spotify", "reconcile", 1)
        /\ IsCall(k - 2, "spotify", "download", 1)
        /\ IsCall(k - 3, "spotify", "fetch", 1)


\* The document of .metadata that getImage writes for an entity of this
\* name, and the one check_missing_tracks_with_metadata_spotify opens when it
\* is called with a name: the names of the files without ".json".
DocumentWritten(name) == SafeName(name)
DocumentLookedUp(name) == name

\* C16: for every Spotify link for which getImage has persisted a metadata
\* document and returned a name, the Reconciler called with the returned name
\* looks up the very document getImage wrote, also for names holding
\* characters the sanitization removes.
C16_ReconcilerFindsFetchedDocument ==
    (phase = "spotify" /\ pc = "reconcile" /\ loop.name # NoneName) =>
        /\ DocumentLookedUp(loop.name) = DocumentWritten(loop.name)
        /\ DocumentLookedUp(loop.name) \in Playlists
        /\ fs.meta[DocumentLookedUp(loop.name)].isfile

=============================================================================
